---- MODULE Spec2Model ----
(***************************************************************************)
(* Model of script.js, the behaviour layer of the portfolio page: theme    *)
(* toggle, smooth-scroll navigation, scroll reveal, active-link tracking   *)
(* and project-card interactions.  The markup of the page is an input of   *)
(* the script, so it is a record (page) chosen in the initial state; the   *)
(* DOM, localStorage and the registered listeners are the program state;   *)
(* every event handler runs to completion and is one action.               *)
(***************************************************************************)
EXTENDS Integers, Sequences, FiniteSets, TLC

\* ------------------------------------------------------------------ bounds
MaxLinks == 2        \* nav links of a page
MaxSections == 2     \* section/header elements of a page
MaxReveal == 2       \* reveal-eligible elements of a page
MaxQueue == 2        \* intersection entries queued before a callback
MaxClicks == 3       \* theme toggle clicks followed in one page life
MaxCalls == 3        \* calls of a debounced function
MaxTime == 4         \* milliseconds the clock is followed for

\* --------------------------------------------------------- program constants
NavOffset == 60          \* targetSection.offsetTop - 60
ActiveThreshold == 100   \* section.offsetTop - 100

Null == "<null>"         \* JavaScript null (getItem, getAttribute, querySelector)
SunGlyph == "sun"        \* textContent written in dark mode
MoonGlyph == "moon"      \* textContent written in light mode
LoadedMessage == "Portfolio loaded and initialized"

\* ------------------------------------------------------------ input domains
StoredValues == {Null, "light", "dark", "auto"}
Hrefs == {"#home", "#about", "#", "#null"}
SectionIds == {"home", "about", Null}
OffsetTops == {0, 150}
ScrollPositions == {0, 49, 50}
RevealKinds == {"project-card", "skill-tag", "about-text"}
Waits == {1, 2}
CallArgs == {"a", "b"}

\* Selectors of the model's domain that the CSS parser rejects.
SelectorSyntaxError == {"", "#"}

Initializers ==
  <<"initThemeToggle", "initScrollReveal", "initActiveNavTracking",
    "addActiveNavStyles", "initProjectCardInteractions">>

VARIABLES
  page,          \* the markup: which elements exist, their attributes
  phase,         \* "parsed" | "scriptRun" | "loaded"
  storage,       \* localStorage.getItem('theme'): Null or a string
  bodyDark,      \* document.body.classList.contains('dark-mode')
  toggleText,    \* themeToggle.textContent (Null when there is no toggle)
  linkActive,    \* link index -> classList.contains('active')
  menuActive,    \* navMenu.classList.contains('active')
  pageYOffset,   \* window.pageYOffset
  scrollRequest, \* <<top>> the last step asked of window.scrollTo, <<>> if none
  style,         \* reveal element index -> inline style record
  observed,      \* targets of the IntersectionObserver
  entries,       \* queued IntersectionObserverEntry records
  flips,         \* reveal element index -> number of hidden->visible changes
  inits,         \* initializers completed, in order
  listeners,     \* registered event listeners
  console,       \* last console.log line, Null when none
  fault,         \* outcome of the last step: "none" or the error thrown
  last,          \* the last event dispatched and its target
  themeLog,      \* theme state after load and after each toggle click
  beforeReload,  \* <<theme state, toggle clicks>> at the last reload, <<>> if never
  defaultPrevented, \* the last event dispatched had preventDefault() called
  db             \* a debounced function: its wait, closure, timers and calls

vars ==
  <<page, phase, storage, bodyDark, toggleText, linkActive, menuActive,
    pageYOffset, scrollRequest, style, observed, entries, flips, inits,
    listeners, console, fault, last, themeLog, beforeReload,
    defaultPrevented, db>>

themeVars == <<storage, bodyDark, toggleText, themeLog>>
navVars == <<linkActive, menuActive, pageYOffset>>
revealVars == <<observed, entries, flips>>

\* ------------------------------------------------------------------ helpers
SeqsUpTo(S, n) == UNION {[1..k -> S] : k \in 0..n}

Min(S) == CHOOSE x \in S : \A y \in S : x <= y

Links == DOMAIN page.links
Sections == DOMAIN page.sections
Reveals == DOMAIN page.reveal
Cards == {i \in Reveals : page.reveal[i].kind = "project-card"}

ThemeState == [dark |-> bodyDark, glyph |-> toggleText, stored |-> storage]

Event(op, target) == [op |-> op, target |-> target]

EmptyStyle == [opacity |-> "", transform |-> "", transition |-> "", zIndex |-> ""]

\* -------------------------------------------------------------- theme toggle
\* localStorage.getItem('theme') || 'light'
currentThemeMutLiteral(stored) ==
  IF stored = Null \/ stored = "" THEN "dark" ELSE stored

currentTheme(stored) ==
  IF stored = Null \/ stored = "" THEN "light" ELSE stored

\* applyTheme: the class change happens before the textContent write, which
\* throws a TypeError when themeToggle is null.
applyThemeMutNoRemove(theme, dark, text, hasToggle) ==
  [dark  |-> IF theme = "dark" THEN TRUE ELSE dark,
   text  |-> IF ~hasToggle THEN text
             ELSE IF theme = "dark" THEN SunGlyph ELSE MoonGlyph,
   fault |-> IF hasToggle THEN "none" ELSE "TypeError"]

applyTheme(theme, dark, text, hasToggle) ==
  [dark  |-> (theme = "dark"),
   text  |-> IF ~hasToggle THEN text
             ELSE IF theme = "dark" THEN SunGlyph ELSE MoonGlyph,
   fault |-> IF hasToggle THEN "none" ELSE "TypeError"]

\* document.body.classList.contains('dark-mode') ? 'light' : 'dark'
newThemeMutStuck(dark) == "dark"

newTheme(dark) == IF dark THEN "light" ELSE "dark"

\* --------------------------------------------------------- smooth scrolling
\* document.querySelector(targetId) over the elements that carry an id: the
\* first match in document order, 0 for null, or a SyntaxError.
querySelector(sel) ==
  IF sel \in SelectorSyntaxError
  THEN [fault |-> "SyntaxError", el |-> 0]
  ELSE LET m == {s \in Sections : /\ page.sections[s].id # Null
                                  /\ "#" \o page.sections[s].id = sel}
       IN  [fault |-> "none", el |-> IF m = {} THEN 0 ELSE Min(m)]

\* The body of the click listener after e.preventDefault(): the top it asks
\* of window.scrollTo (<<>> when it asks nothing), what it leaves of the
\* menu's 'active' class, and how it ends.
navClickMutKeepMenu(href, menu) ==
  LET q == querySelector(href) IN
  IF q.fault # "none"
  THEN [prevented |-> TRUE, request |-> <<>>, menu |-> menu, fault |-> q.fault]
  ELSE IF q.el = 0
       THEN [prevented |-> TRUE, request |-> <<>>, menu |-> menu, fault |-> "none"]
       ELSE IF ~page.hasNavMenu
            THEN [prevented |-> TRUE,
                  request |-> <<page.sections[q.el].offsetTop - NavOffset>>,
                  menu |-> menu, fault |-> "TypeError"]
            ELSE [prevented |-> TRUE,
                  request |-> <<page.sections[q.el].offsetTop - NavOffset>>,
                  menu |-> menu, fault |-> "none"]

navClick(href, menu) ==
  LET q == querySelector(href) IN
  IF q.fault # "none"
  THEN [prevented |-> TRUE, request |-> <<>>, menu |-> menu, fault |-> q.fault]
  ELSE IF q.el = 0
       THEN [prevented |-> TRUE, request |-> <<>>, menu |-> menu, fault |-> "none"]
       ELSE IF ~page.hasNavMenu
            THEN [prevented |-> TRUE,
                  request |-> <<page.sections[q.el].offsetTop - NavOffset>>,
                  menu |-> menu, fault |-> "TypeError"]
            ELSE [prevented |-> TRUE,
                  request |-> <<page.sections[q.el].offsetTop - NavOffset>>,
                  menu |-> FALSE, fault |-> "none"]

\* ------------------------------------------------------ active-link tracking
\* sections.forEach: the id attribute of the last section, in document
\* order, with pageYOffset >= offsetTop - 100; '' when there is none.
RECURSIVE scanSections(_, _, _, _)
scanSections(secs, i, y, cur) ==
  IF i > Len(secs) THEN cur
  ELSE scanSections(secs, i + 1, y,
                    IF y >= secs[i].offsetTop - ActiveThreshold
                    THEN secs[i].id ELSE cur)

currentSectionMutStrict(secs, y) ==
  LET q == {i \in DOMAIN secs : y > secs[i].offsetTop - ActiveThreshold}
  IN  IF q = {} THEN "" ELSE secs[CHOOSE i \in q : \A j \in q : j <= i].id

currentSection(secs, y) == scanSections(secs, 1, y, "")

\* `#${currentSection}`: null is formatted as the text null.
hashOf(cur) == "#" \o (IF cur = Null THEN "null" ELSE cur)

\* navLinks.forEach: remove 'active', add it back when the href matches.
activeLinks(links, cur) == [i \in DOMAIN links |-> links[i] = hashOf(cur)]

\* ------------------------------------------------------------ scroll reveal
HiddenStyle(st) ==
  [st EXCEPT !.opacity = "0",
             !.transform = "translateY(20px)",
             !.transition = "opacity 600ms ease-out, transform 600ms ease-out"]

\* One entry of the observer callback.
revealEntryMutNoUnobserve(entry, r) ==
  IF entry.isIntersecting
  THEN [style    |-> [r.style EXCEPT ![entry.target].opacity = "1",
                                     ![entry.target].transform = "translateY(0)"],
        observed |-> r.observed,
        flips    |-> [r.flips EXCEPT ![entry.target] =
                        IF r.style[entry.target].opacity = "0" THEN @ + 1 ELSE @]]
  ELSE r

revealEntryMutHideAgain(entry, r) ==
  IF entry.isIntersecting
  THEN [style    |-> [r.style EXCEPT ![entry.target].opacity = "1",
                                     ![entry.target].transform = "translateY(0)"],
        observed |-> r.observed,
        flips    |-> [r.flips EXCEPT ![entry.target] =
                        IF r.style[entry.target].opacity = "0" THEN @ + 1 ELSE @]]
  ELSE [r EXCEPT !.style[entry.target].opacity = "0"]

revealEntryMutRevealAll(entry, r) ==
  IF entry.isIntersecting
  THEN [style    |-> [e \in DOMAIN r.style |->
                        [r.style[e] EXCEPT !.opacity = "1", !.transform = "translateY(0)"]],
        observed |-> r.observed \ {entry.target},
        flips    |-> [r.flips EXCEPT ![entry.target] =
                        IF r.style[entry.target].opacity = "0" THEN @ + 1 ELSE @]]
  ELSE r

revealEntry(entry, r) ==
  IF entry.isIntersecting
  THEN [style    |-> [r.style EXCEPT ![entry.target].opacity = "1",
                                     ![entry.target].transform = "translateY(0)"],
        observed |-> r.observed \ {entry.target},
        flips    |-> [r.flips EXCEPT ![entry.target] =
                        IF r.style[entry.target].opacity = "0" THEN @ + 1 ELSE @]]
  ELSE r

\* entries.forEach
RECURSIVE revealEntries(_, _, _)
revealEntries(ents, i, r) ==
  IF i > Len(ents) THEN r
  ELSE revealEntries(ents, i + 1, revealEntry(ents[i], r))

\* ----------------------------------------------------------- initialization
\* The DOMContentLoaded listener calls the five initializers in order; an
\* error thrown by one ends the listener.
completedInitsMutContinue(themeFault) == Initializers

completedInits(themeFault) ==
  IF themeFault = "none" THEN Initializers ELSE <<>>

Done(name, seq) == \E i \in DOMAIN seq : seq[i] = name

\* Listeners registered by the top level of the script.
scriptListenersMutNeedsLink(links) ==
  IF DOMAIN links = {} THEN {}
  ELSE {<<"DOMContentLoaded", "document", 0>>}
       \cup {<<"click", "nav-link", i>> : i \in DOMAIN links}

scriptListeners(links) ==
  {<<"DOMContentLoaded", "document", 0>>}
  \cup {<<"click", "nav-link", i>> : i \in DOMAIN links}

\* Listeners registered by the initializers that completed.
initListeners(done) ==
  (IF Done("initThemeToggle", done)
   THEN {<<"click", "themeToggle", 0>>} ELSE {})
  \cup (IF Done("initActiveNavTracking", done)
        THEN {<<"scroll", "window", 0>>} ELSE {})
  \cup (IF Done("initProjectCardInteractions", done)
        THEN {<<"mouseenter", "project-card", c>> : c \in Cards}
             \cup {<<"mouseleave", "project-card", c>> : c \in Cards}
             \cup {<<"click", "project-link", c>> :
                     c \in {d \in Cards : page.reveal[d].hasLink}}
        ELSE {})

\* ------------------------------------------------------------------ actions
\* Top level of the script (lines 12-14, 52-72, 184): the element
\* references are taken and the listeners that need no initializer are
\* registered.
RunScript ==
  /\ phase = "parsed"
  /\ phase' = "scriptRun"
  /\ listeners' = scriptListeners(page.links)
  /\ fault' = "none"
  /\ scrollRequest' = <<>>
  /\ last' = Event("script", 0)
  /\ defaultPrevented' = FALSE
  /\ db' = db
  /\ UNCHANGED <<page, themeVars, linkActive, menuActive, pageYOffset, style,
                 revealVars, inits, console, beforeReload>>

\* The DOMContentLoaded listener: console.log, then the five initializers.
DOMContentLoaded ==
  /\ phase = "scriptRun"
  /\ <<"DOMContentLoaded", "document", 0>> \in listeners
  /\ phase' = "loaded"
  /\ console' = LoadedMessage
  /\ LET th == applyTheme(currentTheme(storage), bodyDark, toggleText, page.hasToggle)
         done == completedInits(th.fault)
     IN  /\ bodyDark' = th.dark
         /\ toggleText' = th.text
         /\ fault' = th.fault
         /\ inits' = done
         /\ listeners' = listeners \cup initListeners(done)
         /\ themeLog' = IF Done("initThemeToggle", done)
                        THEN <<[dark |-> th.dark, glyph |-> th.text, stored |-> storage]>>
                        ELSE themeLog
         /\ IF Done("initScrollReveal", done)
            THEN /\ style' = [e \in Reveals |-> HiddenStyle(style[e])]
                 /\ observed' = Reveals
            ELSE UNCHANGED <<style, observed>>
  /\ scrollRequest' = <<>>
  /\ last' = Event("DOMContentLoaded", 0)
  /\ defaultPrevented' = FALSE
  /\ db' = db
  /\ UNCHANGED <<page, storage, linkActive, menuActive, pageYOffset, entries,
                 flips, beforeReload>>

\* Click on #themeToggle.
ThemeToggleClick ==
  /\ <<"click", "themeToggle", 0>> \in listeners
  /\ Len(themeLog) <= MaxClicks
  /\ LET nt == newTheme(bodyDark)
         th == applyTheme(nt, bodyDark, toggleText, page.hasToggle)
     IN  /\ bodyDark' = th.dark
         /\ toggleText' = th.text
         /\ fault' = th.fault
         /\ storage' = nt
         /\ themeLog' = Append(themeLog,
                          [dark |-> th.dark, glyph |-> th.text, stored |-> nt])
  /\ scrollRequest' = <<>>
  /\ last' = Event("themeToggle", 0)
  /\ defaultPrevented' = FALSE
  /\ db' = db
  /\ UNCHANGED <<page, phase, linkActive, menuActive, pageYOffset, style,
                 revealVars, inits, listeners, console, beforeReload>>

\* Click on nav link i.
NavLinkClick(i) ==
  /\ <<"click", "nav-link", i>> \in listeners
  /\ LET r == navClick(page.links[i], menuActive)
     IN  /\ scrollRequest' = r.request
         /\ menuActive' = r.menu
         /\ fault' = r.fault
         /\ defaultPrevented' = r.prevented
  /\ last' = Event("navClick", i)
  /\ db' = db
  /\ UNCHANGED <<page, phase, themeVars, linkActive, pageYOffset, style,
                 revealVars, inits, listeners, console, beforeReload>>

\* The window is scrolled to y; the scroll listener, when installed,
\* recomputes the active link.
Scroll(y) ==
  /\ phase = "loaded"
  /\ pageYOffset' = y
  /\ linkActive' = IF <<"scroll", "window", 0>> \in listeners
                   THEN activeLinks(page.links, currentSection(page.sections, y))
                   ELSE linkActive
  /\ fault' = "none"
  /\ scrollRequest' = <<>>
  /\ last' = Event("scroll", 0)
  /\ defaultPrevented' = FALSE
  /\ db' = db
  /\ UNCHANGED <<page, phase, themeVars, menuActive, style, revealVars, inits,
                 listeners, console, beforeReload>>

\* The browser queues a notification for an observed target.
Intersect(e, b) ==
  /\ e \in observed
  /\ Len(entries) < MaxQueue
  /\ entries' = Append(entries, [target |-> e, isIntersecting |-> b])
  /\ fault' = "none"
  /\ scrollRequest' = <<>>
  /\ last' = Event("intersect", e)
  /\ defaultPrevented' = FALSE
  /\ db' = db
  /\ UNCHANGED <<page, phase, themeVars, navVars, style, observed, flips,
                 inits, listeners, console, beforeReload>>

\* The observer callback, called with every queued entry.
IntersectionCallback ==
  /\ Done("initScrollReveal", inits)
  /\ entries # <<>>
  /\ LET r == revealEntries(entries, 1,
                [style |-> style, observed |-> observed, flips |-> flips])
     IN  /\ style' = r.style
         /\ observed' = r.observed
         /\ flips' = r.flips
  /\ entries' = <<>>
  /\ fault' = "none"
  /\ scrollRequest' = <<>>
  /\ last' = Event("intersectionCallback", 0)
  /\ defaultPrevented' = FALSE
  /\ db' = db
  /\ UNCHANGED <<page, phase, themeVars, navVars, inits, listeners, console,
                 beforeReload>>

\* mouseenter / mouseleave on project card c.
MouseEnter(c) ==
  /\ <<"mouseenter", "project-card", c>> \in listeners
  /\ style' = [style EXCEPT ![c].zIndex = "1"]
  /\ fault' = "none"
  /\ scrollRequest' = <<>>
  /\ last' = Event("mouseenter", c)
  /\ defaultPrevented' = FALSE
  /\ db' = db
  /\ UNCHANGED <<page, phase, themeVars, navVars, revealVars, inits, listeners,
                 console, beforeReload>>

MouseLeave(c) ==
  /\ <<"mouseleave", "project-card", c>> \in listeners
  /\ style' = [style EXCEPT ![c].zIndex = "0"]
  /\ fault' = "none"
  /\ scrollRequest' = <<>>
  /\ last' = Event("mouseleave", c)
  /\ defaultPrevented' = FALSE
  /\ db' = db
  /\ UNCHANGED <<page, phase, themeVars, navVars, revealVars, inits, listeners,
                 console, beforeReload>>

\* Click on the .project-link of card c: the title's textContent is read
\* without a presence check.
ProjectLinkClick(c) ==
  /\ <<"click", "project-link", c>> \in listeners
  /\ IF page.reveal[c].hasTitle
     THEN /\ console' = "Navigating to project: " \o page.reveal[c].title
          /\ fault' = "none"
     ELSE /\ console' = console
          /\ fault' = "TypeError"
  /\ scrollRequest' = <<>>
  /\ last' = Event("projectLinkClick", c)
  /\ defaultPrevented' = FALSE
  /\ db' = db
  /\ UNCHANGED <<page, phase, themeVars, navVars, style, revealVars, inits,
                 listeners, beforeReload>>

\* The page is loaded again: a fresh document from the same markup, the
\* same localStorage.
Reload ==
  /\ phase = "loaded"
  /\ phase' = "parsed"
  /\ beforeReload' = <<[theme |-> ThemeState, clicks |-> Len(themeLog) - 1]>>
  /\ bodyDark' = page.bodyDark
  /\ toggleText' = IF page.hasToggle THEN page.toggleText ELSE Null
  /\ themeLog' = <<>>
  /\ linkActive' = [i \in Links |-> FALSE]
  /\ menuActive' = (page.hasNavMenu /\ page.menuOpen)
  /\ pageYOffset' = 0
  /\ scrollRequest' = <<>>
  /\ style' = [e \in Reveals |-> EmptyStyle]
  /\ observed' = {}
  /\ entries' = <<>>
  /\ flips' = [e \in Reveals |-> 0]
  /\ inits' = <<>>
  /\ listeners' = {}
  /\ console' = Null
  /\ fault' = "none"
  /\ last' = Event("reload", 0)
  /\ defaultPrevented' = FALSE
  /\ db' = db
  /\ UNCHANGED <<page, storage>>

\* ------------------------------------------------------------ initial states
\* The document as parsed from the markup p, before the script runs.
ParsedDocument(p, stored) ==
  /\ page = p
  /\ phase = "parsed"
  /\ storage = stored
  /\ bodyDark = p.bodyDark
  /\ toggleText = IF p.hasToggle THEN p.toggleText ELSE Null
  /\ themeLog = <<>>
  /\ linkActive = [i \in DOMAIN p.links |-> FALSE]
  /\ menuActive = (p.hasNavMenu /\ p.menuOpen)
  /\ pageYOffset = 0
  /\ scrollRequest = <<>>
  /\ style = [e \in DOMAIN p.reveal |-> EmptyStyle]
  /\ observed = {}
  /\ entries = <<>>
  /\ flips = [e \in DOMAIN p.reveal |-> 0]
  /\ inits = <<>>
  /\ listeners = {}
  /\ console = Null
  /\ fault = "none"
  /\ last = Event("parse", 0)
  /\ beforeReload = <<>>
  /\ defaultPrevented = FALSE

\* The page never calls debounce: no debounced function exists.
Parsed(p, stored) == ParsedDocument(p, stored) /\ db = <<>>

Card(link, title) ==
  [kind |-> "project-card", hasLink |-> link, hasTitle |-> title, title |-> "Project"]

Plain(kind) ==
  [kind |-> kind, hasLink |-> FALSE, hasTitle |-> FALSE, title |-> Null]

RevealElements ==
  {Card(l, t) : l \in BOOLEAN, t \in BOOLEAN} \cup {Plain(k) : k \in RevealKinds \ {"project-card"}}

SectionElements == [id : SectionIds, offsetTop : OffsetTops]

\* A page with every element the script looks for.
FullPage ==
  [hasToggle  |-> TRUE,
   toggleText |-> MoonGlyph,
   bodyDark   |-> FALSE,
   hasNavMenu |-> TRUE,
   menuOpen   |-> TRUE,
   links      |-> <<"#home", "#about">>,
   sections   |-> <<[id |-> "home", offsetTop |-> 0],
                    [id |-> "about", offsetTop |-> 150]>>,
   reveal     |-> <<Card(TRUE, TRUE), Plain("skill-tag")>>]

\* Pages that differ in what the theme code reads.
ThemePages ==
  {[FullPage EXCEPT !.hasToggle = t, !.toggleText = g, !.bodyDark = d] :
     t \in BOOLEAN, g \in {MoonGlyph, SunGlyph}, d \in BOOLEAN}

\* Pages that differ in what the navigation code reads.
NavPages ==
  {[FullPage EXCEPT !.links = ls, !.sections = ss, !.hasNavMenu = m, !.menuOpen = o] :
     ls \in SeqsUpTo(Hrefs, MaxLinks), ss \in SeqsUpTo(SectionElements, MaxSections),
     m \in BOOLEAN, o \in BOOLEAN}

\* Pages that differ in what a nav-link click reads: the hrefs, the ids in
\* the document, the menu and whether it is open.
MenuPages ==
  {[FullPage EXCEPT !.links = ls, !.sections = ss, !.hasNavMenu = m[1], !.menuOpen = m[2]] :
     ls \in SeqsUpTo(Hrefs, MaxLinks),
     ss \in SeqsUpTo([id : {"home", "about"}, offsetTop : OffsetTops], MaxSections),
     m \in {<<FALSE, FALSE>>, <<TRUE, FALSE>>, <<TRUE, TRUE>>}}

\* Pages that differ in their reveal-eligible elements.
RevealPages ==
  {[FullPage EXCEPT !.reveal = rs] : rs \in SeqsUpTo(RevealElements, MaxReveal)}

\* Pages that differ in which of the elements the script looks for exist.
Pages ==
  {[FullPage EXCEPT !.hasToggle = t, !.hasNavMenu = m,
                    !.sections = SubSeq(FullPage.sections, 1, k), !.reveal = rs] :
     t \in BOOLEAN, m \in BOOLEAN, k \in 0..Len(FullPage.sections),
     rs \in SeqsUpTo({Card(TRUE, TRUE), Card(TRUE, FALSE), Card(FALSE, FALSE),
                      Plain("skill-tag")}, 1)}

Init == \E p \in Pages : \E s \in {Null, "dark"} : Parsed(p, s)
InitWhole == \E s \in {Null, "dark"} : Parsed(FullPage, s)
InitTheme == \E p \in ThemePages : \E s \in StoredValues : Parsed(p, s)
InitNav == \E p \in NavPages : Parsed(p, Null)
InitMenu == \E p \in MenuPages : Parsed(p, Null)
InitTrack == \E p \in {q \in NavPages : q.hasNavMenu /\ q.menuOpen} : Parsed(p, Null)
InitReveal == \E p \in RevealPages : Parsed(p, Null)

Next ==
  \/ RunScript
  \/ DOMContentLoaded
  \/ ThemeToggleClick
  \/ \E i \in Links : NavLinkClick(i)
  \/ \E y \in ScrollPositions : Scroll(y)
  \/ \E e \in Reveals : \E b \in BOOLEAN : Intersect(e, b)
  \/ IntersectionCallback
  \/ \E c \in Cards : MouseEnter(c)
  \/ \E c \in Cards : MouseLeave(c)
  \/ \E c \in Cards : ProjectLinkClick(c)

NextTheme ==
  \/ RunScript
  \/ DOMContentLoaded
  \/ ThemeToggleClick

NextReload ==
  \/ RunScript
  \/ DOMContentLoaded
  \/ ThemeToggleClick
  \/ Reload

NextNav ==
  \/ RunScript
  \/ DOMContentLoaded
  \/ \E i \in Links : NavLinkClick(i)
  \/ \E y \in ScrollPositions : Scroll(y)

NextReveal ==
  \/ RunScript
  \/ DOMContentLoaded
  \/ \E e \in Reveals : \E b \in BOOLEAN : Intersect(e, b)
  \/ IntersectionCallback

Spec == Init /\ [][Next]_vars
SpecWhole == InitWhole /\ [][Next]_vars
SpecTheme == InitTheme /\ [][NextTheme]_vars
SpecReload == InitTheme /\ [][NextReload]_vars
SpecNav == InitNav /\ [][NextNav]_vars
SpecMenu == InitMenu /\ [][NextNav]_vars
SpecTrack == InitTrack /\ [][NextNav]_vars
SpecReveal == InitReveal /\ [][NextReveal]_vars

\* ---------------------------------------------------------------- debounce
\* debounce(func, wait): the closure (timeout, undefined written 0), the
\* timers the event loop holds, the clock, and the calls and invocations of
\* func so far.  runs counts the calls made while no timer was pending.
debounce(wait) ==
  [wait |-> wait, timeout |-> 0, nextId |-> 1, timers |-> {}, now |-> 0,
   calls |-> <<>>, invoked |-> <<>>, runs |-> 0]

\* clearTimeout(id): a no-op for an id that is not pending.
clearTimeout(timers, id) == {t \in timers : t.id # id}

\* executedFunction(...args): clearTimeout(timeout); timeout = setTimeout(later, wait)
executedFunctionMutNoClear(d, args) ==
  [d EXCEPT !.timers = d.timers
                       \cup {[id |-> d.nextId, due |-> d.now + d.wait, args |-> args]},
            !.timeout = d.nextId,
            !.nextId = d.nextId + 1,
            !.calls = Append(d.calls, [at |-> d.now, args |-> args]),
            !.runs = IF d.timers = {} THEN d.runs + 1 ELSE d.runs]

executedFunction(d, args) ==
  [d EXCEPT !.timers = clearTimeout(d.timers, d.timeout)
                       \cup {[id |-> d.nextId, due |-> d.now + d.wait, args |-> args]},
            !.timeout = d.nextId,
            !.nextId = d.nextId + 1,
            !.calls = Append(d.calls, [at |-> d.now, args |-> args]),
            !.runs = IF d.timers = {} THEN d.runs + 1 ELSE d.runs]

\* later(), run by the event loop for timer t: clearTimeout(timeout); func(...args)
later(d, t) ==
  [d EXCEPT !.timers = clearTimeout(d.timers \ {t}, d.timeout),
            !.invoked = Append(d.invoked,
                          [at |-> d.now, args |-> t.args, calls |-> Len(d.calls)])]

\* The debounced function is called with args.
DebouncedCall(args) ==
  /\ db # <<>>
  /\ Len(db[1].calls) < MaxCalls
  /\ db' = <<executedFunction(db[1], args)>>
  /\ fault' = "none"
  /\ scrollRequest' = <<>>
  /\ defaultPrevented' = FALSE
  /\ last' = Event("debouncedCall", 0)
  /\ UNCHANGED <<page, phase, themeVars, navVars, style, revealVars, inits,
                 listeners, console, beforeReload>>

\* A timer whose delay has passed runs; the event loop may run it late.
TimerFires ==
  /\ db # <<>>
  /\ \E t \in db[1].timers :
       /\ t.due <= db[1].now
       /\ db' = <<later(db[1], t)>>
  /\ fault' = "none"
  /\ scrollRequest' = <<>>
  /\ defaultPrevented' = FALSE
  /\ last' = Event("timer", 0)
  /\ UNCHANGED <<page, phase, themeVars, navVars, style, revealVars, inits,
                 listeners, console, beforeReload>>

\* A millisecond passes.
Tick ==
  /\ db # <<>>
  /\ db[1].now < MaxTime
  /\ db' = <<[db[1] EXCEPT !.now = db[1].now + 1]>>
  /\ UNCHANGED <<page, phase, themeVars, navVars, scrollRequest, style,
                 revealVars, inits, listeners, console, fault, last,
                 beforeReload, defaultPrevented>>

InitDebounce ==
  \E w \in Waits : ParsedDocument(FullPage, Null) /\ db = <<debounce(w)>>

NextDebounce ==
  \/ \E a \in CallArgs : DebouncedCall(a)
  \/ TimerFires
  \/ Tick

SpecDebounce == InitDebounce /\ [][NextDebounce]_vars

\* ------------------------------------------------------------------- claims
Recognized == {"light", "dark"}

\* C1 (as stated): two consecutive clicks on the theme toggle give back the
\* body class, the glyph and the stored 'theme' value of before the clicks.
ToggleTwiceRestoresAll ==
  \A i \in 1..(Len(themeLog) - 2) : themeLog[i + 2] = themeLog[i]

\* C1 (amended): two consecutive clicks give back the body class and the
\* glyph; the stored value is then the name of that theme, which is the
\* value of before the clicks whenever that value was 'light' or 'dark'.
ToggleTwiceRestoresVisible ==
  \A i \in 1..(Len(themeLog) - 2) :
    /\ themeLog[i + 2].dark = themeLog[i].dark
    /\ themeLog[i + 2].glyph = themeLog[i].glyph
    /\ themeLog[i + 2].stored = (IF themeLog[i].dark THEN "dark" ELSE "light")
    /\ themeLog[i].stored \in Recognized => themeLog[i + 2].stored = themeLog[i].stored
    /\ themeLog[Len(themeLog)] = ThemeState

ToggleTwiceWitness ==
  /\ Len(themeLog) >= 3
  /\ themeLog[1].stored \notin Recognized
  /\ last.op = "themeToggle"

\* C2: the load that follows a reload shows the theme that was visible when
\* the page was reloaded, whatever the toggle clicks before; neither the
\* reload nor that load changes the stored value.
ReloadReappliesTheme ==
  /\ (beforeReload # <<>> /\ last.op \in {"reload", "script", "DOMContentLoaded"})
       => storage = beforeReload[1].theme.stored
  /\ (beforeReload # <<>> /\ last.op = "DOMContentLoaded")
       => /\ bodyDark = beforeReload[1].theme.dark
          /\ toggleText = beforeReload[1].theme.glyph

ReloadWitness ==
  /\ beforeReload # <<>>
  /\ beforeReload[1].clicks >= 1
  /\ beforeReload[1].theme.dark # page.bodyDark
  /\ last.op = "DOMContentLoaded"

\* C6: loading with no stored 'theme' leaves the body without 'dark-mode',
\* shows the moon glyph and writes nothing to localStorage.
AbsentThemeLoadsLight ==
  [][(/\ last'.op = "DOMContentLoaded"
      /\ storage = Null
      /\ page.hasToggle)
       => (~bodyDark' /\ toggleText' = MoonGlyph /\ storage' = Null)]_vars

AbsentThemeWitness ==
  /\ last.op = "DOMContentLoaded"
  /\ storage = Null
  /\ page.hasToggle
  /\ page.bodyDark
  /\ page.toggleText = SunGlyph
  /\ ~bodyDark

\* Reading of "hidden" and "visible" for a reveal-eligible element.
Hidden(e) == style[e].opacity = "0"
Visible(e) == style[e].opacity = "1"

\* C3: a reveal-eligible element goes from hidden to visible at most once,
\* and no step sets a visible element back to hidden.
RevealAtMostOnce ==
  /\ [](\A e \in Reveals : flips[e] <= 1)
  /\ [][\A e \in Reveals : Visible(e) => style'[e].opacity = "1"]_vars

RevealWitness ==
  \E e \in Reveals :
    /\ Visible(e)
    /\ flips[e] = 1
    /\ last.op = "intersectionCallback"
    /\ \E o \in Reveals : Hidden(o)

\* The sections, in document order, whose top is past the threshold at y.
Qualifying(y) ==
  {s \in Sections : page.sections[s].offsetTop - ActiveThreshold <= y}

LastQualifying(y) == CHOOSE s \in Qualifying(y) : \A t \in Qualifying(y) : t <= s

ScrollHandled == last.op = "scroll" /\ <<"scroll", "window", 0>> \in listeners

\* C4 (as stated): after a scroll event at most one link is active, and a
\* link is active exactly when its href is '#' and the id of the last
\* qualifying section.
ActiveLinkIsLastSection ==
  ScrollHandled =>
    /\ Cardinality({i \in Links : linkActive[i]}) <= 1
    /\ \A i \in Links :
         linkActive[i] <=>
           /\ Qualifying(pageYOffset) # {}
           /\ page.sections[LastQualifying(pageYOffset)].id # Null
           /\ page.links[i] = "#" \o page.sections[LastQualifying(pageYOffset)].id

\* The text the scroll listener compares the hrefs with.
ExpectedHash ==
  IF Qualifying(pageYOffset) = {} THEN "#"
  ELSE IF page.sections[LastQualifying(pageYOffset)].id = Null THEN "#null"
  ELSE "#" \o page.sections[LastQualifying(pageYOffset)].id

\* C4 (amended): after a scroll event a link is active exactly when its
\* href is '#' followed by the id attribute of the last qualifying section,
\* read as the text null when that section has no id and as the empty text
\* when no section qualifies; links with pairwise different hrefs leave at
\* most one active.
ActiveLinksMatchHash ==
  ScrollHandled =>
    /\ \A i \in Links : linkActive[i] <=> (page.links[i] = ExpectedHash)
    /\ (\A i, j \in Links : i # j => page.links[i] # page.links[j])
         => Cardinality({i \in Links : linkActive[i]}) <= 1

ActiveLinkWitness ==
  /\ ScrollHandled
  /\ Len(page.sections) = 2
  /\ Qualifying(pageYOffset) = Sections
  /\ pageYOffset = page.sections[2].offsetTop - ActiveThreshold
  /\ page.sections[1].id # page.sections[2].id
  /\ \E i, j \in Links : linkActive[i] /\ ~linkActive[j]

\* The elements a '#id' href resolves to.
Targets(href) ==
  {s \in Sections : page.sections[s].id # Null /\ "#" \o page.sections[s].id = href}

\* C5: a click on a nav link whose target exists asks for a scroll to the
\* target's offsetTop - 60; a click on one whose target is absent asks for
\* no scroll and raises no error.
NavClickScrollsOrIgnores ==
  last.op = "navClick" =>
    LET href == page.links[last.target] IN
    IF Targets(href) # {}
    THEN scrollRequest = <<page.sections[Min(Targets(href))].offsetTop - NavOffset>>
    ELSE scrollRequest = <<>> /\ fault = "none"

\* C7: with the toggle and the nav links present, no initializer and no
\* event handler raises a fault, whichever optional elements are missing.
OptionalAbsenceTolerated ==
  (page.hasToggle /\ page.links # <<>>) => fault = "none"

\* C8: without the toggle button the load faults in initThemeToggle and none
\* of the other initializers runs: no reveal element is hidden or observed,
\* no scroll listener is installed.
MissingToggleIsFatal ==
  (~page.hasToggle /\ phase = "loaded") =>
    /\ inits = <<>>
    /\ last.op = "DOMContentLoaded" => fault = "TypeError"
    /\ observed = {}
    /\ \A e \in Reveals : style[e].opacity = "" /\ style[e].transform = ""
    /\ <<"scroll", "window", 0>> \notin listeners
    /\ <<"click", "themeToggle", 0>> \notin listeners
    /\ \A c \in Cards : <<"mouseenter", "project-card", c>> \notin listeners
    /\ \A i \in Links : ~linkActive[i]

MissingToggleWitness ==
  /\ ~page.hasToggle
  /\ phase = "loaded"
  /\ last.op = "scroll"
  /\ pageYOffset > 0
  /\ Reveals # {}
  /\ Sections # {}

\* C9 (as stated): a page without nav links does not reach the state in
\* which all five initializers have completed.
NoLinksFailsInit ==
  (page.links = <<>> /\ phase = "loaded") => inits # Initializers

\* C9 (amended): a page without nav links raises no fault for that: the top
\* level registers the DOMContentLoaded listener and no click listener, and
\* with the toggle present all five initializers complete.
NoLinksInitCompletes ==
  page.links = <<>> =>
    /\ phase # "parsed" =>
         /\ <<"DOMContentLoaded", "document", 0>> \in listeners
         /\ \A l \in listeners : l[2] # "nav-link"
    /\ last.op \in {"script", "DOMContentLoaded", "scroll"} /\ page.hasToggle
         => fault = "none"
    /\ phase = "loaded" /\ page.hasToggle => inits = Initializers

NoLinksWitness ==
  /\ page.links = <<>>
  /\ phase = "loaded"
  /\ page.hasToggle
  /\ inits = Initializers
  /\ last.op = "scroll"

\* C10: once initScrollReveal has run, every reveal-eligible element is
\* either hidden and observed or visible and not observed; the load leaves
\* all of them hidden and observed; an element becomes visible only in a
\* callback given an intersecting entry for it, and a callback changes
\* nothing of an element it has no intersecting entry for.
RevealLatch ==
  /\ [](Done("initScrollReveal", inits) =>
          \A e \in Reveals : \/ (Hidden(e) /\ e \in observed)
                             \/ (Visible(e) /\ e \notin observed))
  /\ [][(last'.op = "DOMContentLoaded" /\ Done("initScrollReveal", inits'))
          => \A e \in Reveals : style'[e].opacity = "0" /\ e \in observed']_vars
  /\ [][\A e \in Reveals :
          LET reported == \E k \in DOMAIN entries :
                            entries[k] = [target |-> e, isIntersecting |-> TRUE]
          IN  /\ (~Visible(e) /\ style'[e].opacity = "1")
                   => (last'.op = "intersectionCallback" /\ reported)
              /\ (last'.op = "intersectionCallback" /\ ~reported)
                   => (style'[e] = style[e] /\ (e \in observed' <=> e \in observed))]_vars

RevealLatchWitness ==
  /\ last.op = "intersectionCallback"
  /\ \E e \in Reveals : Visible(e) /\ e \notin observed
  /\ \E e \in Reveals : Hidden(e) /\ e \in observed /\ flips[e] = 0

\* C11: once initThemeToggle has run, the body has 'dark-mode' exactly when
\* the glyph is the sun; after at least one toggle click the stored 'theme'
\* is 'light' or 'dark', and is 'dark' exactly when the body has 'dark-mode'.
ThemeSelfConsistent ==
  Done("initThemeToggle", inits) =>
    /\ toggleText \in {SunGlyph, MoonGlyph}
    /\ bodyDark <=> (toggleText = SunGlyph)
    /\ Len(themeLog) >= 2 =>
         /\ storage \in Recognized
         /\ (storage = "dark") <=> bodyDark

ThemeConsistentWitness ==
  /\ Len(themeLog) >= 3
  /\ themeLog[1].stored = "auto"
  /\ page.toggleText = SunGlyph
  /\ ~bodyDark
  /\ last.op = "themeToggle"

\* C12: a toggle click leaves the reveal states, the active links, the
\* scroll position and the nav menu alone; a scroll event changes only the
\* 'active' class of the links; an observer callback changes only the
\* reveal state of the elements it is given; so under any interleaving the
\* theme after n clicks is the loaded theme when n is even, the other one
\* when n is odd.
ComponentsIndependent ==
  /\ [][/\ last'.op = "themeToggle" =>
             UNCHANGED <<linkActive, menuActive, pageYOffset, style, observed,
                         entries, flips, inits, listeners>>
        /\ last'.op = "scroll" =>
             UNCHANGED <<bodyDark, toggleText, storage, themeLog, menuActive,
                         style, observed, entries, flips, inits, listeners>>
        /\ last'.op = "intersectionCallback" =>
             /\ UNCHANGED <<bodyDark, toggleText, storage, themeLog, linkActive,
                            menuActive, pageYOffset, inits, listeners>>
             /\ \A e \in Reveals :
                  /\ style'[e].zIndex = style[e].zIndex
                  /\ (\A k \in DOMAIN entries : entries[k].target # e)
                       => /\ style'[e] = style[e]
                          /\ flips'[e] = flips[e]
                          /\ (e \in observed' <=> e \in observed)]_vars
  /\ [](Done("initThemeToggle", inits) =>
          /\ themeLog # <<>>
          /\ themeLog[Len(themeLog)] = ThemeState
          /\ bodyDark = IF (Len(themeLog) - 1) % 2 = 0
                        THEN themeLog[1].dark ELSE ~themeLog[1].dark)

ComponentsWitness ==
  /\ last.op = "intersectionCallback"
  /\ Len(themeLog) >= 2
  /\ \E i \in Links : linkActive[i]
  /\ pageYOffset > 0
  /\ \E e \in Reveals : Visible(e)
  /\ \E e \in Reveals : Hidden(e)

\* C13: a nav-link click always suppresses the default jump; with an
\* existing target the menu is not 'active' afterwards; with an absent
\* target the menu's class and the scroll position are as before; in both
\* cases the links' 'active' classes are as before.
NavClickFrame ==
  /\ [](last.op = "navClick" =>
          /\ defaultPrevented
          /\ Targets(page.links[last.target]) # {} => ~menuActive)
  /\ [][last'.op = "navClick" =>
          /\ linkActive' = linkActive
          /\ Targets(page.links[last'.target]) = {} =>
               /\ menuActive' = menuActive
               /\ pageYOffset' = pageYOffset
               /\ scrollRequest' = <<>>]_vars

NavClickFrameWitness ==
  /\ last.op = "navClick"
  /\ Targets(page.links[last.target]) # {}
  /\ page.hasNavMenu
  /\ page.menuOpen
  /\ ~menuActive
  /\ pageYOffset > 0
  /\ \E i \in Links : linkActive[i]
  /\ \E i \in Links : Targets(page.links[i]) = {}

\* The calls that open a burst: the first, and each one made wait ms or more
\* after the call before it.
BurstStarts(d) ==
  {i \in DOMAIN d.calls : i = 1 \/ d.calls[i].at - d.calls[i - 1].at >= d.wait}

\* Every invocation comes wait ms or more after the most recent call, with
\* that call's arguments; at most one timer is pending.
DebounceQuiet(d) ==
  /\ Cardinality(d.timers) <= 1
  /\ \A k \in DOMAIN d.invoked :
       /\ d.invoked[k].calls >= 1
       /\ d.invoked[k].at - d.calls[d.invoked[k].calls].at >= d.wait
       /\ d.invoked[k].args = d.calls[d.invoked[k].calls].args

\* C14 (as stated): func is never invoked within wait ms of the most recent
\* call, gets the arguments of the last call, at most one timer is pending,
\* and each burst of calls less than wait ms apart gives exactly one
\* invocation.
DebounceOncePerBurst ==
  db # <<>> =>
    /\ DebounceQuiet(db[1])
    /\ db[1].timers = {} => Len(db[1].invoked) = Cardinality(BurstStarts(db[1]))

\* C14 (amended): as stated, but a burst is a run of calls each made while
\* the timer of the call before it is still pending: each such run gives
\* exactly one invocation once its timer has fired.
DebounceOncePerRun ==
  db # <<>> =>
    /\ DebounceQuiet(db[1])
    /\ Len(db[1].invoked) + Cardinality(db[1].timers) = db[1].runs
    /\ db[1].runs <= Cardinality(BurstStarts(db[1]))
    /\ \A k \in DOMAIN db[1].invoked :
         \A j \in DOMAIN db[1].invoked : j < k => db[1].invoked[j].calls < db[1].invoked[k].calls

DebounceWitness ==
  /\ db # <<>>
  /\ Len(db[1].calls) = 3
  /\ Len(db[1].invoked) = 2
  /\ db[1].timers = {}
  /\ db[1].invoked[1].calls = 2
  /\ db[1].calls[1].args # db[1].calls[2].args
  /\ last.op = "timer"

====
